---------------------------- MODULE Spec2Model ----------------------------
(***************************************************************************)
(* Screenplay Editor backend (src/main.py): FDX export, text-to-speech     *)
(* preparation and the Scene Board AI proxy, as one request/response state *)
(* machine.  A text is a sequence of one-character strings, so that the    *)
(* string operations of the code (replace, split, strip, upper, join) are  *)
(* computed character by character.                                        *)
(***************************************************************************)
EXTENDS Naturals, Sequences, FiniteSets

VARIABLES
    ANTHROPIC_API_KEY,   \* the credential read from the environment at import
    pc,                  \* "idle": waiting for a call, "done": the call has ended
    request,             \* the call being served
    response,            \* how the call ended: a returned value or a raised exception
    outbound             \* POSTs issued to the external API while serving the call

vars == <<ANTHROPIC_API_KEY, pc, request, response, outbound>>

-----------------------------------------------------------------------------
(* Bounds of the model.                                                     *)

MaxTextLen == 3
MaxFdxElements == 2
MaxTtsElements == 3
MaxNameLen == 3
MaxRespLen == 5

-----------------------------------------------------------------------------
(* Generic text helpers.                                                    *)

\* Every text of at most n characters over the alphabet chars.
AllStrings(chars, n) == UNION {[1..k -> chars] : k \in 0..n}

\* How a call ends.
Return(v) == [kind |-> "return", value |-> v]
Raise(e) == [kind |-> "raise", exc |-> e]

\* str.replace(old, new) for a one-character old.
RECURSIVE replace(_, _, _)
replace(text, old, new) ==
    IF text = <<>> THEN <<>>
    ELSE (IF Head(text) = old THEN new ELSE <<Head(text)>>)
         \o replace(Tail(text), old, new)

\* sep.join(parts)
RECURSIVE join(_, _)
join(sep, parts) ==
    IF parts = <<>> THEN <<>>
    ELSE IF Len(parts) = 1 THEN parts[1]
    ELSE parts[1] \o sep \o join(sep, Tail(parts))

-----------------------------------------------------------------------------
(* FDX EXPORT                                                               *)

AMP ==
    <<"&", "a", "m", "p", ";">>

LT ==
    <<"&", "l", "t", ";">>

GT ==
    <<"&", "g", "t", ";">>

QUOT ==
    <<"&", "q", "u", "o", "t", ";">>

APOS ==
    <<"&", "a", "p", "o", "s", ";">>

\* A plausible slip: the ampersand is replaced last, so the ampersands the
\* earlier replacements introduced are escaped again.
escape_xml_AmpersandLast(text) ==
    IF text = <<>> THEN <<>>
    ELSE replace(replace(replace(replace(replace(text,
             "<", LT), ">", GT), "\"", QUOT), "'", APOS), "&", AMP)

escape_xml(text) ==
    IF text = <<>> THEN <<>>
    ELSE replace(replace(replace(replace(replace(text,
             "&", AMP), "<", LT), ">", GT), "\"", QUOT), "'", APOS)

SCENE_HEADING_FDX ==
    <<"S", "c", "e", "n", "e", " ", "H", "e", "a", "d", "i", "n", "g">>

ACTION_FDX ==
    <<"A", "c", "t", "i", "o", "n">>

CHARACTER_FDX ==
    <<"C", "h", "a", "r", "a", "c", "t", "e", "r">>

DIALOGUE_FDX ==
    <<"D", "i", "a", "l", "o", "g", "u", "e">>

PARENTHETICAL_FDX ==
    <<"P", "a", "r", "e", "n", "t", "h", "e", "t", "i", "c", "a", "l">>

TRANSITION_FDX ==
    <<"T", "r", "a", "n", "s", "i", "t", "i", "o", "n">>

\* A plausible slip: no default, an unrecognized type keeps its own name.
type_mapping_NoDefault(type) ==
    CASE type = "SCENE_HEADING" -> SCENE_HEADING_FDX
      [] type = "ACTION" -> ACTION_FDX
      [] type = "CHARACTER" -> CHARACTER_FDX
      [] type = "DIALOGUE" -> DIALOGUE_FDX
      [] type = "PARENTHETICAL" -> PARENTHETICAL_FDX
      [] type = "TRANSITION" -> TRANSITION_FDX
      [] OTHER -> <<"N", "o", "t", "e">>

\* type_mapping.get(el.type, "Action")
type_mapping(type) ==
    CASE type = "SCENE_HEADING" -> SCENE_HEADING_FDX
      [] type = "ACTION" -> ACTION_FDX
      [] type = "CHARACTER" -> CHARACTER_FDX
      [] type = "DIALOGUE" -> DIALOGUE_FDX
      [] type = "PARENTHETICAL" -> PARENTHETICAL_FDX
      [] type = "TRANSITION" -> TRANSITION_FDX
      [] OTHER -> ACTION_FDX

XML_DECLARATION ==
    <<"<", "?", "x", "m", "l", " ", "v", "e", "r", "s", "i", "o", "n", "=", "\"", "1", ".",
      "0", "\"", " ", "e", "n", "c", "o", "d", "i", "n", "g", "=", "\"", "U", "T", "F", "-",
      "8", "\"", "?", ">">>

FINALDRAFT_OPEN ==
    <<"<", "F", "i", "n", "a", "l", "D", "r", "a", "f", "t", " ", "D", "o", "c", "u", "m", "e",
      "n", "t", "T", "y", "p", "e", "=", "\"", "S", "c", "r", "i", "p", "t", "\"", " ", "T",
      "e", "m", "p", "l", "a", "t", "e", "=", "\"", "N", "o", "\"", " ", "V", "e", "r", "s",
      "i", "o", "n", "=", "\"", "3", "\"", ">">>

CONTENT_OPEN ==
    <<"<", "C", "o", "n", "t", "e", "n", "t", ">">>

CONTENT_CLOSE ==
    <<"<", "/", "C", "o", "n", "t", "e", "n", "t", ">">>

FINALDRAFT_CLOSE ==
    <<"<", "/", "F", "i", "n", "a", "l", "D", "r", "a", "f", "t", ">">>

PARAGRAPH_OPEN_PRE ==
    <<" ", " ", "<", "P", "a", "r", "a", "g", "r", "a", "p", "h", " ", "T", "y", "p", "e", "=",
      "\"">>

PARAGRAPH_OPEN_POST ==
    <<"\"", ">">>

TEXT_OPEN ==
    <<" ", " ", " ", " ", "<", "T", "e", "x", "t", ">">>

TEXT_CLOSE ==
    <<"<", "/", "T", "e", "x", "t", ">">>

PARAGRAPH_CLOSE ==
    <<" ", " ", "<", "/", "P", "a", "r", "a", "g", "r", "a", "p", "h", ">">>

\* The three lines the loop of generate_fdx appends for each element.
RECURSIVE paragraph_parts(_)
paragraph_parts(elements) ==
    IF elements = <<>> THEN <<>>
    ELSE LET el == Head(elements)
             fdx_type == type_mapping(el.type)
             escaped_text == escape_xml(el.text)
         IN  << PARAGRAPH_OPEN_PRE \o fdx_type \o PARAGRAPH_OPEN_POST,
                TEXT_OPEN \o escaped_text \o TEXT_CLOSE,
                PARAGRAPH_CLOSE >>
             \o paragraph_parts(Tail(elements))

xml_parts(elements) ==
    <<XML_DECLARATION, FINALDRAFT_OPEN, CONTENT_OPEN>>
    \o paragraph_parts(elements)
    \o <<CONTENT_CLOSE, FINALDRAFT_CLOSE>>

generate_fdx(title, elements) == join(<<"\n">>, xml_parts(elements))

FDX_SUFFIX ==
    <<".", "f", "d", "x">>

CONTENT_DISPOSITION_PRE ==
    <<"a", "t", "t", "a", "c", "h", "m", "e", "n", "t", ";", " ", "f", "i", "l", "e", "n", "a",
      "m", "e", "=", "\"">>

\* POST /export/fdx.  generate_fdx and replace raise nothing, so the except
\* clause (HTTPException 500) is never entered.
export_fdx(req) ==
    LET fdx_content == generate_fdx(req.title, req.elements)
        filename == replace(req.title, " ", <<"_">>) \o FDX_SUFFIX
    IN  Return([content |-> fdx_content,
                media_type |-> "application/xml",
                headers |-> [Content_Disposition |->
                                CONTENT_DISPOSITION_PRE \o filename \o <<"\"">>]])

\* POST /export/fdx/json.
export_fdx_json(req) ==
    LET fdx_content == generate_fdx(req.title, req.elements)
    IN  Return([success |-> TRUE,
                filename |-> req.title \o FDX_SUFFIX,
                content |-> fdx_content,
                content_type |-> "application/xml"])

-----------------------------------------------------------------------------
(* TEXT-TO-SPEECH                                                           *)

\* Python's None, for a value that is otherwise a string constant.
None == "<None>"

\* Python's None, for a value that is otherwise a text: a one-element
\* sequence whose element is no character, so it differs from every text.
NoText == <<None>>

\* Python's None, for request.characters: a one-element sequence whose
\* element is no Character, so it differs from every list of characters.
NoCharacters == <<[none |-> TRUE]>>

\* The names are compared as whole strings.  The two names the source
\* spells with an E acute are written with its escape, \u00C9: the module
\* is ASCII, and no input of the model holds that letter.
FEMALE_NAMES ==
    {"MARIE", "SOPHIE", "JULIE", "EMMA", "L\\u00C9A", "CHLO\\u00C9", "CAMILLE", "SARAH",
     "LAURA", "CLARA", "ALICE", "ANNA", "EVA", "LISA", "MARY", "JANE",
     "OLIVIA", "AVA", "MIA", "EMILY", "ELLA", "LUCY", "GRACE"}

MALE_NAMES ==
    {"JEAN", "PIERRE", "PAUL", "JACQUES", "MICHEL", "MARC", "LUC", "THOMAS",
     "NICOLAS", "ANTOINE", "LOUIS", "HUGO", "LUCAS", "JOHN", "JAMES", "DAVID",
     "MICHAEL", "WILLIAM", "RICHARD", "ROBERT", "CHARLES", "JOSEPH"}

LOWER ==
    <<"a", "b", "c", "d", "e", "f", "g", "h", "i", "j", "k", "l", "m", "n", "o", "p", "q", "r",
      "s", "t", "u", "v", "w", "x", "y", "z">>

UPPER ==
    <<"A", "B", "C", "D", "E", "F", "G", "H", "I", "J", "K", "L", "M", "N", "O", "P", "Q", "R",
      "S", "T", "U", "V", "W", "X", "Y", "Z">>

\* The characters str.strip() and str.split() treat as whitespace.
WHITESPACE == {" ", "\t", "\n", "\r", "\f"}

\* str.upper()
upper(text) ==
    [i \in 1..Len(text) |->
        IF \E k \in 1..Len(LOWER) : LOWER[k] = text[i]
        THEN UPPER[CHOOSE k \in 1..Len(LOWER) : LOWER[k] = text[i]]
        ELSE text[i]]

\* text.split(sep)[0] for a one-character sep: the text before the first sep.
RECURSIVE split_first(_, _)
split_first(text, sep) ==
    IF text = <<>> \/ Head(text) = sep THEN <<>>
    ELSE <<Head(text)>> \o split_first(Tail(text), sep)

RECURSIVE lstrip(_)
lstrip(text) ==
    IF text # <<>> /\ Head(text) \in WHITESPACE THEN lstrip(Tail(text)) ELSE text

RECURSIVE rstrip(_)
rstrip(text) ==
    IF text # <<>> /\ text[Len(text)] \in WHITESPACE
    THEN rstrip(SubSeq(text, 1, Len(text) - 1))
    ELSE text

\* str.strip()
strip(text) == rstrip(lstrip(text))

\* str.split(): the whitespace-delimited tokens, none of them empty.
RECURSIVE split(_)
split(text) ==
    LET t == lstrip(text)
        token == IF t = <<>> THEN <<>>
                 ELSE LET ends == {i \in 1..Len(t) : t[i] \in WHITESPACE}
                          stop == IF ends = {} THEN Len(t) + 1
                                  ELSE CHOOSE i \in ends : \A j \in ends : i <= j
                      IN  SubSeq(t, 1, stop - 1)
    IN  IF t = <<>> THEN <<>>
        ELSE <<token>> \o split(SubSeq(t, Len(token) + 1, Len(t)))

\* The text as one string.
RECURSIVE str(_)
str(text) == IF text = <<>> THEN "" ELSE Head(text) \o str(Tail(text))

\* guess_gender: split()[0] raises IndexError when the name has no token.
guess_gender(name) ==
    LET tokens == split(upper(name))
    IN  IF tokens = <<>> THEN Raise([type |-> "IndexError"])
        ELSE LET clean_name == str(tokens[1])
             IN  IF clean_name \in FEMALE_NAMES THEN Return("female")
                 ELSE IF clean_name \in MALE_NAMES THEN Return("male")
                 ELSE Return("neutral")

\* The dict prepare_tts builds from request.characters, keyed by upper-cased
\* name; a later entry of the list overwrites an earlier one with its key.
characters_dict(list) ==
    [key \in {upper(list[i].name) : i \in 1..Len(list)} |->
        LET last == CHOOSE i \in 1..Len(list) :
                        /\ upper(list[i].name) = key
                        /\ \A j \in 1..Len(list) : upper(list[j].name) = key => j <= i
        IN  [gender |-> list[last].gender,
             age |-> list[last].age,
             voice_id |-> list[last].voice_id]]

\* characters.get(last_character, {}).get("gender")
char_info_gender(characters, last_character) ==
    IF last_character \in DOMAIN characters
    THEN characters[last_character].gender
    ELSE None

\* The voice of a DIALOGUE element once its gender is known.
dialogue_voice(gender) ==
    IF gender = "female"
    THEN [rate |-> "1.1", pitch |-> "1.3", voice_type |-> "female", pause_after |-> 300]
    ELSE IF gender = "male"
    THEN [rate |-> "1.1", pitch |-> "0.8", voice_type |-> "male", pause_after |-> 300]
    ELSE [rate |-> "1.1", pitch |-> "1.0", voice_type |-> "neutral", pause_after |-> 300]

get_voice_for_element(element, characters, last_character) ==
    CASE element.type = "SCENE_HEADING" ->
            Return([rate |-> "0.9", pitch |-> "0.8", voice_type |-> "narrator",
                    pause_after |-> 1000])
      [] element.type = "ACTION" ->
            Return([rate |-> "1.0", pitch |-> "1.0", voice_type |-> "narrator",
                    pause_after |-> 500])
      [] element.type = "CHARACTER" ->
            Return([rate |-> "1.0", pitch |-> "1.0", voice_type |-> "narrator",
                    skip |-> TRUE])
      [] element.type = "DIALOGUE" ->
            IF /\ last_character # NoText
               /\ last_character # <<>>
               /\ DOMAIN characters # {}
            THEN LET explicit == char_info_gender(characters, last_character)
                     gender == IF explicit # None /\ explicit # ""
                               THEN Return(explicit)
                               ELSE guess_gender(last_character)
                 IN  IF gender.kind = "raise" THEN gender
                     ELSE Return(dialogue_voice(gender.value))
            ELSE Return([rate |-> "1.1", pitch |-> "1.0", voice_type |-> "narrator",
                         pause_after |-> 300])
      [] element.type = "PARENTHETICAL" ->
            Return([rate |-> "1.2", pitch |-> "1.1", volume |-> "0.7",
                    voice_type |-> "narrator", pause_after |-> 200])
      [] element.type = "TRANSITION" ->
            Return([rate |-> "0.8", pitch |-> "0.7", voice_type |-> "narrator",
                    pause_after |-> 1500])
      [] OTHER ->
            Return([rate |-> "1.0", pitch |-> "1.0", voice_type |-> "narrator"])

\* A plausible slip: the parenthetical is cut but the name is not trimmed.
character_name_NoStrip(text) == split_first(upper(text), "(")

\* el.text.upper().split("(")[0].strip()
character_name(text) == strip(split_first(upper(text), "("))

\* last_character if el.type in ["DIALOGUE", "PARENTHETICAL"] else None
character_field(type, last_character) ==
    IF type \in {"DIALOGUE", "PARENTHETICAL"} THEN last_character ELSE NoText

\* The loop of prepare_tts over the elements still to process.
RECURSIVE tts_loop(_, _, _, _)
tts_loop(elements, characters, last_character, tts_elements) ==
    IF elements = <<>> THEN Return(tts_elements)
    ELSE LET el == Head(elements)
             voice_params == get_voice_for_element(el, characters, last_character)
             last == IF el.type = "CHARACTER" THEN character_name(el.text)
                     ELSE last_character
         IN  IF voice_params.kind = "raise" THEN voice_params
             ELSE tts_loop(Tail(elements), characters, last,
                      Append(tts_elements,
                          [type |-> el.type,
                           text |-> el.text,
                           voice |-> voice_params.value,
                           character |-> character_field(el.type, last)]))

\* POST /tts/prepare.
prepare_tts(req) ==
    LET characters == IF req.characters # NoCharacters /\ req.characters # <<>>
                      THEN characters_dict(req.characters)
                      ELSE <<>>
        done == tts_loop(req.elements, characters, NoText, <<>>)
    IN  IF done.kind = "raise"
        THEN Return([success |-> FALSE, error |-> done.exc])
        ELSE Return([success |-> TRUE,
                     title |-> req.title,
                     elements |-> done.value,
                     total_elements |-> Len(done.value)])

-----------------------------------------------------------------------------
(* SCENE BOARD AI                                                           *)

\* The grave accent, U+0060, which a TLA+ string cannot hold: one character.
Backtick == "GRAVE"

FENCE ==
    <<Backtick, Backtick, Backtick>>

NOT_CONFIGURED ==
    <<"A", "N", "T", "H", "R", "O", "P", "I", "C", "_", "A", "P", "I", "_", "K", "E", "Y", " ",
      "n", "o", "t", " ", "c", "o", "n", "f", "i", "g", "u", "r", "e", "d">>

\* No answer: the external API was not contacted.
NoUpstream == [kind |-> "none"]

\* call_claude.  upstream is what the external API does with the POST: it
\* answers with a status code and a text, or the transport fails.  The
\* prompt is built by string formatting, which raises nothing and decides
\* nothing, and is left out.
call_claude(key, upstream) ==
    IF key = NoText \/ key = <<>>
    THEN [outcome |-> Raise([type |-> "HTTPException", status_code |-> 500,
                             detail |-> NOT_CONFIGURED]),
          posts |-> 0]
    ELSE [outcome |->
              IF upstream.kind = "error" THEN Raise([type |-> upstream.exc])
              ELSE IF upstream.status_code # 200
              THEN Raise([type |-> "HTTPException",
                          status_code |-> upstream.status_code,
                          detail |-> upstream.text])
              ELSE Return(upstream.text),
          posts |-> 1]

\* str.startswith(prefix)
startswith(text, prefix) ==
    /\ Len(prefix) <= Len(text)
    /\ SubSeq(text, 1, Len(prefix)) = prefix

\* text.split("\n", 1)[1]: what follows the first newline; IndexError when
\* the text has no newline.
split_newline_second(text) ==
    LET at == {i \in 1..Len(text) : text[i] = "\n"}
    IN  IF at = {} THEN Raise([type |-> "IndexError"])
        ELSE LET first == CHOOSE i \in at : \A j \in at : i <= j
             IN  Return(SubSeq(text, first + 1, Len(text)))

\* text.rsplit(sep, 1)[0]: what precedes the last sep, the whole text when
\* it holds no sep.
rsplit_first(text, sep) ==
    LET at == {i \in 1..Len(text) :
                  /\ i + Len(sep) - 1 <= Len(text)
                  /\ SubSeq(text, i, i + Len(sep) - 1) = sep}
    IN  IF at = {} THEN text
        ELSE LET last == CHOOSE i \in at : \A j \in at : j <= i
             IN  SubSeq(text, 1, last - 1)

\* The whitespace json.loads skips around a value.
JSON_WHITESPACE == {" ", "\t", "\n", "\r"}

RECURSIVE json_skip(_)
json_skip(text) ==
    IF text # <<>> /\ Head(text) \in JSON_WHITESPACE THEN json_skip(Tail(text))
    ELSE IF text # <<>> /\ text[Len(text)] \in JSON_WHITESPACE
    THEN json_skip(SubSeq(text, 1, Len(text) - 1))
    ELSE text

DIGITS == {"0", "1", "2", "3", "4", "5", "6", "7", "8", "9"}

\* Whether json.loads accepts the text, for the JSON documents the model's
\* alphabet can spell: an integer, or an array that is empty or holds one
\* such document, with whitespace around each.
RECURSIVE is_json(_)
is_json(text) ==
    LET t == json_skip(text)
    IN  /\ t # <<>>
        /\ \/ /\ \A i \in 1..Len(t) : t[i] \in DIGITS
              /\ Len(t) = 1 \/ t[1] # "0"
           \/ /\ Len(t) >= 2
              /\ t[1] = "["
              /\ t[Len(t)] = "]"
              /\ LET inner == SubSeq(t, 2, Len(t) - 1)
                 IN  json_skip(inner) = <<>> \/ is_json(inner)

\* json.loads: the parsed value is denoted by the document without the
\* whitespace around it.
json_loads(text) ==
    IF is_json(text) THEN Return(json_skip(text))
    ELSE Raise([type |-> "JSONDecodeError"])

\* The cleaning and parsing both handlers apply to the text call_claude
\* returned: strip, drop the fence line and the closing fence, json.loads.
clean_and_parse(result) ==
    LET stripped == strip(result)
        after_line == IF startswith(stripped, FENCE)
                      THEN split_newline_second(stripped)
                      ELSE Return(stripped)
    IN  IF after_line.kind = "raise" THEN after_line
        ELSE IF startswith(stripped, FENCE)
        THEN json_loads(rsplit_first(after_line.value, FENCE))
        ELSE json_loads(after_line.value)

\* The try block of analyze_scenes: how it ends, and whether the local
\* names json (bound by the import statement after the call) and result
\* were bound when it ended.
analyze_try(called) ==
    IF called.outcome.kind = "raise"
    THEN [ended |-> called.outcome, json_bound |-> FALSE, result_bound |-> FALSE,
          result |-> NoText]
    ELSE [ended |-> clean_and_parse(called.outcome.value), json_bound |-> TRUE,
          result_bound |-> TRUE, result |-> called.outcome.value]

\* POST /api/scene-board/analyze.  The first except clause evaluates
\* json.JSONDecodeError: with json unbound that raises UnboundLocalError,
\* which leaves the handler.
analyze_scenes(req, key, upstream) ==
    LET called == call_claude(key, upstream)
        try == analyze_try(called)
    IN  [outcome |->
            IF try.ended.kind = "return"
            THEN Return([success |-> TRUE, title |-> req.title,
                         analysis |-> try.ended.value])
            ELSE IF ~try.json_bound
            THEN Raise([type |-> "UnboundLocalError", name |-> "json"])
            ELSE IF try.ended.exc.type = "JSONDecodeError"
            THEN Return([success |-> FALSE, error |-> try.ended.exc,
                         raw_response |-> IF try.result_bound THEN try.result
                                          ELSE NoText])
            ELSE Return([success |-> FALSE, error |-> try.ended.exc]),
         posts |-> called.posts]

\* POST /api/scene-board/suggest: one except clause, for every Exception.
suggest_improvements(req, key, upstream) ==
    LET called == call_claude(key, upstream)
        ended == IF called.outcome.kind = "raise" THEN called.outcome
                 ELSE clean_and_parse(called.outcome.value)
    IN  [outcome |->
            IF ended.kind = "return"
            THEN Return([success |-> TRUE, suggestions |-> ended.value])
            ELSE Return([success |-> FALSE, error |-> ended.exc]),
         posts |-> called.posts]

\* What FastAPI answers when a handler ends: 200 with the returned value,
\* the status code of a raised HTTPException, 500 for any other exception.
http_status(ended) ==
    IF ended.kind = "return" THEN 200
    ELSE IF ended.exc.type = "HTTPException" THEN ended.exc.status_code
    ELSE 500

-----------------------------------------------------------------------------
(* Inputs.                                                                  *)

ElementTypes ==
    {"SCENE_HEADING", "ACTION", "CHARACTER", "DIALOGUE", "PARENTHETICAL", "TRANSITION",
     "SHOT"}

XmlChars == {"&", "<", ">", "\"", "'", "a"}

FiveSpecials ==
    <<"&", "<", ">", "\"", "'">>

XmlTexts == AllStrings(XmlChars, MaxTextLen) \cup {FiveSpecials}

MyPlay ==
    <<"M", "y", " ", "P", "l", "a", "y">>

Titles == {<<>>, <<" ">>, <<"P", " ", "P">>, <<" ", " ", "P">>, MyPlay}

FdxElements ==
    {[type |-> t, text |-> <<"a", "<", "&">>] : t \in ElementTypes}
    \cup {[type |-> "ACTION", text |-> <<>>]}

FdxElementLists == AllStrings(FdxElements, MaxFdxElements)

SophieOS ==
    <<"S", "O", "P", "H", "I", "E", " ", "(", "O", ".", "S", ".", ")">>

Jean ==
    <<"j", "e", "a", "n">>

Bob ==
    <<"B", "o", "b", " ", "S", "m", "i", "t", "h">>

VoiceOver ==
    <<" ", "(", "V", ".", "O", ".", ")">>

Hello ==
    <<"H", "e", "l", "l", "o">>

CharacterTexts == {SophieOS, Jean, Bob, VoiceOver}

TtsElements ==
    {[type |-> "CHARACTER", text |-> n] : n \in CharacterTexts}
    \cup {[type |-> t, text |-> Hello] :
             t \in {"SCENE_HEADING", "ACTION", "DIALOGUE", "PARENTHETICAL", "TRANSITION"}}

TtsElementLists == AllStrings(TtsElements, MaxTtsElements)

Character(name, gender) ==
    [name |-> name, gender |-> gender, age |-> None, voice_id |-> None]

\* request.characters: absent, empty, or a list of characters.
CharacterLists ==
    {NoCharacters,
     <<>>,
     <<Character(Bob, "robot"), Character(<<"J", "E", "A", "N">>, None)>>}

NameChars == {"a", "v", "A", "L", "u", "c", " "}

Names == AllStrings(NameChars, MaxNameLen)

RespChars == {Backtick, "\n", "1", "x"}

FencedJson ==
    <<Backtick, Backtick, Backtick, "j", "s", "o", "n", "\n", "[", "1", "]", "\n", Backtick,
      Backtick, Backtick>>

RespTexts == AllStrings(RespChars, MaxRespLen) \cup {FencedJson, <<"[", "1", "]">>}

ErrorBody ==
    <<"{", "\"", "t", "y", "p", "e", "\"", ":", "\"", "e", "r", "r", "o", "r", "\"", "}">>

\* What the external API may do with a POST.
Upstreams ==
    {[kind |-> "status", status_code |-> 200, text |-> t] : t \in RespTexts}
    \cup {[kind |-> "status", status_code |-> c, text |-> ErrorBody] : c \in {401, 429, 529}}
    \cup {[kind |-> "error", exc |-> e] : e \in {"ReadTimeout", "ConnectError"}}

\* The POST is issued only with a credential; without one nothing answers.
UpstreamsFor(key) ==
    IF key = NoText \/ key = <<>> THEN {NoUpstream} ELSE Upstreams

ApiKeys == {NoText, <<>>, <<"s", "k">>}

NoRequest == [op |-> "none"]
NoResponse == [kind |-> "none"]

-----------------------------------------------------------------------------
(* The state machine.                                                       *)

Init ==
    /\ ANTHROPIC_API_KEY \in ApiKeys
    /\ pc = "idle"
    /\ request = NoRequest
    /\ response = NoResponse
    /\ outbound = 0

EscapeXml ==
    /\ pc = "idle"
    /\ \E text \in XmlTexts :
          /\ request' = [op |-> "escape_xml", text |-> text]
          /\ response' = Return(escape_xml(text))
    /\ pc' = "done"
    /\ UNCHANGED <<ANTHROPIC_API_KEY, outbound>>

ExportFdx ==
    /\ pc = "idle"
    /\ \E title \in Titles, elements \in FdxElementLists :
          LET req == [op |-> "export_fdx", title |-> title, elements |-> elements]
          IN  /\ request' = req
              /\ response' = export_fdx(req)
    /\ pc' = "done"
    /\ UNCHANGED <<ANTHROPIC_API_KEY, outbound>>

ExportFdxJson ==
    /\ pc = "idle"
    /\ \E title \in Titles, elements \in FdxElementLists :
          LET req == [op |-> "export_fdx_json", title |-> title, elements |-> elements]
          IN  /\ request' = req
              /\ response' = export_fdx_json(req)
    /\ pc' = "done"
    /\ UNCHANGED <<ANTHROPIC_API_KEY, outbound>>

GuessGender ==
    /\ pc = "idle"
    /\ \E name \in Names :
          /\ request' = [op |-> "guess_gender", name |-> name]
          /\ response' = guess_gender(name)
    /\ pc' = "done"
    /\ UNCHANGED <<ANTHROPIC_API_KEY, outbound>>

PrepareTts ==
    /\ pc = "idle"
    /\ \E elements \in TtsElementLists, characters \in CharacterLists :
          LET req == [op |-> "prepare_tts", title |-> MyPlay, elements |-> elements,
                      characters |-> characters]
          IN  /\ request' = req
              /\ response' = prepare_tts(req)
    /\ pc' = "done"
    /\ UNCHANGED <<ANTHROPIC_API_KEY, outbound>>

AnalyzeScenes ==
    /\ pc = "idle"
    /\ \E upstream \in UpstreamsFor(ANTHROPIC_API_KEY) :
          LET req == [op |-> "analyze_scenes", title |-> MyPlay, upstream |-> upstream]
              ended == analyze_scenes(req, ANTHROPIC_API_KEY, upstream)
          IN  /\ request' = req
              /\ response' = ended.outcome
              /\ outbound' = ended.posts
    /\ pc' = "done"
    /\ UNCHANGED ANTHROPIC_API_KEY

SuggestImprovements ==
    /\ pc = "idle"
    /\ \E upstream \in UpstreamsFor(ANTHROPIC_API_KEY) :
          LET req == [op |-> "suggest_improvements", title |-> MyPlay,
                      upstream |-> upstream]
              ended == suggest_improvements(req, ANTHROPIC_API_KEY, upstream)
          IN  /\ request' = req
              /\ response' = ended.outcome
              /\ outbound' = ended.posts
    /\ pc' = "done"
    /\ UNCHANGED ANTHROPIC_API_KEY

\* The response is sent and everything the call built is discarded.
Respond ==
    /\ pc = "done"
    /\ pc' = "idle"
    /\ request' = NoRequest
    /\ response' = NoResponse
    /\ outbound' = 0
    /\ UNCHANGED ANTHROPIC_API_KEY

Next ==
    \/ EscapeXml
    \/ ExportFdx
    \/ ExportFdxJson
    \/ GuessGender
    \/ PrepareTts
    \/ AnalyzeScenes
    \/ SuggestImprovements
    \/ Respond

Spec == Init /\ [][Next]_vars

-----------------------------------------------------------------------------
(* The claims.                                                              *)

\* The call of handler or function op has ended.
Ended(op) == pc = "done" /\ request.op = op

\* The places of a text where pattern starts.
Occurrences(text, pattern) ==
    {i \in 1..Len(text) :
        /\ i + Len(pattern) - 1 <= Len(text)
        /\ SubSeq(text, i, i + Len(pattern) - 1) = pattern}

NL == <<"\n">>

\* The FDX type the claims give for an element type.
ClaimedFdxType(type) ==
    IF type = "SCENE_HEADING" THEN SCENE_HEADING_FDX
    ELSE IF type = "CHARACTER" THEN CHARACTER_FDX
    ELSE IF type = "DIALOGUE" THEN DIALOGUE_FDX
    ELSE IF type = "PARENTHETICAL" THEN PARENTHETICAL_FDX
    ELSE IF type = "TRANSITION" THEN TRANSITION_FDX
    ELSE ACTION_FDX

\* The substitution of one character, and of a text character by character.
ClaimedEscapeOfChar(c) ==
    IF c = "&" THEN AMP
    ELSE IF c = "<" THEN LT
    ELSE IF c = ">" THEN GT
    ELSE IF c = "\"" THEN QUOT
    ELSE IF c = "'" THEN APOS
    ELSE <<c>>

RECURSIVE ClaimedEscape(_)
ClaimedEscape(text) ==
    IF text = <<>> THEN <<>>
    ELSE ClaimedEscapeOfChar(Head(text)) \o ClaimedEscape(Tail(text))

FiveEscaped ==
    <<"&", "a", "m", "p", ";", "&", "l", "t", ";", "&", "g", "t", ";", "&", "q", "u", "o", "t",
      ";", "&", "a", "p", "o", "s", ";">>

\* C4: the document generate_fdx builds starts with the fixed header and
\* ends with the fixed footer; between them it holds exactly one Paragraph
\* block per input element, in input order, the k-th with the Type the
\* fixed mapping gives the k-th element's type ("Action" for a type the
\* mapping does not know); for no element <Content> is directly followed
\* by </Content>.
C4_OneParagraphPerElement ==
    (pc = "done" /\ request.op \in {"export_fdx", "export_fdx_json"}) =>
        LET out == response.value.content
            els == request.elements
            header == XML_DECLARATION \o NL \o FINALDRAFT_OPEN \o NL \o CONTENT_OPEN
            footer == CONTENT_CLOSE \o NL \o FINALDRAFT_CLOSE
            opens == Occurrences(out, <<"<", "P", "a", "r", "a", "g", "r", "a", "p", "h">>)
            closes == Occurrences(out, <<"<", "/", "P", "a", "r", "a", "g", "r", "a", "p", "h", ">">>)
            nth(k) == CHOOSE p \in opens : Cardinality({q \in opens : q < p}) = k - 1
            block(el) == <<"<", "P", "a", "r", "a", "g", "r", "a", "p", "h", " ",
                           "T", "y", "p", "e", "=", "\"">>
                         \o ClaimedFdxType(el.type) \o <<"\"", ">">> \o NL
                         \o TEXT_OPEN \o ClaimedEscape(el.text) \o TEXT_CLOSE \o NL
                         \o PARAGRAPH_CLOSE
        IN  /\ startswith(out, header)
            /\ Len(footer) <= Len(out)
            /\ SubSeq(out, Len(out) - Len(footer) + 1, Len(out)) = footer
            /\ Cardinality(opens) = Len(els)
            /\ Cardinality(closes) = Len(els)
            /\ \A k \in 1..Len(els) : nth(k) \in Occurrences(out, block(els[k]))
            /\ els = <<>> => out = header \o NL \o footer

\* C4's case: two elements are exported, the first of a type the mapping
\* does not know, the second a transition.
C4_Witness ==
    /\ Ended("export_fdx")
    /\ Len(request.elements) = 2
    /\ request.elements[1].type = "SHOT"
    /\ request.elements[2].type = "TRANSITION"
    /\ response.kind = "return"

\* C5: escape_xml returns the character-by-character substitution of its
\* input, no ampersand a replacement introduced being escaped again: the
\* five special characters give &amp;&lt;&gt;&quot;&apos;, and the empty
\* text gives the empty text.
C5_EscapePerCharacter ==
    Ended("escape_xml") =>
        /\ response = Return(ClaimedEscape(request.text))
        /\ request.text = FiveSpecials => response.value = FiveEscaped
        /\ request.text = <<>> => response.value = <<>>

\* C5's case: the five special characters have been escaped.
C5_Witness ==
    /\ Ended("escape_xml")
    /\ request.text = FiveSpecials
    /\ response.value = FiveEscaped

\* The file name the claims derive from a title.
ClaimedFilename(title) ==
    [i \in 1..Len(title) |-> IF title[i] = " " THEN "_" ELSE title[i]] \o FDX_SUFFIX

\* C6: both FDX exports report as file name the title with every space
\* replaced by an underscore, followed by .fdx: in the Content-Disposition
\* header of /export/fdx and in the filename field of /export/fdx/json;
\* and the document does not depend on the title.
C6_FilenameFromTitle ==
    /\ Ended("export_fdx") =>
          /\ response.value.headers.Content_Disposition =
                CONTENT_DISPOSITION_PRE \o ClaimedFilename(request.title) \o <<"\"">>
          /\ \A t \in Titles : generate_fdx(t, request.elements) = response.value.content
    /\ Ended("export_fdx_json") =>
          /\ response.value.filename = ClaimedFilename(request.title)
          /\ \A t \in Titles : generate_fdx(t, request.elements) = response.value.content

\* The gender the name heuristic gives a name: by the first
\* whitespace-delimited token of the upper-cased name, neutral without one.
ClaimedGender(name) ==
    LET tokens == split(upper(name))
    IN  IF tokens = <<>> THEN "neutral"
        ELSE IF str(tokens[1]) \in FEMALE_NAMES THEN "female"
        ELSE IF str(tokens[1]) \in MALE_NAMES THEN "male"
        ELSE "neutral"

\* The name the claims derive from the text of a CHARACTER element.
ClaimedName(text) == strip(split_first(upper(text), "("))

\* The request gives the character of this name no gender.
NoExplicitGender(name, characters) ==
    \/ characters = NoCharacters
    \/ \A i \in 1..Len(characters) :
          upper(characters[i].name) = name => characters[i].gender \in {None, ""}

\* C1: in prepare_tts, with or without a characters list, a DIALOGUE element
\* that immediately follows a CHARACTER element with no explicit gender has
\* the voice of the name heuristic: female and pitch 1.3, male and pitch
\* 0.8, or neutral and pitch 1.0, each with rate 1.1 and pause_after 300.
C1_DialogueVoiceFromName ==
    Ended("prepare_tts") =>
        /\ response.value.success
        /\ \A i \in 2..Len(request.elements) :
              LET name == ClaimedName(request.elements[i - 1].text)
                  gender == ClaimedGender(name)
              IN  ( /\ request.elements[i].type = "DIALOGUE"
                    /\ request.elements[i - 1].type = "CHARACTER"
                    /\ NoExplicitGender(name, request.characters) )
                  => response.value.elements[i].voice =
                        [rate |-> "1.1",
                         pitch |-> IF gender = "female" THEN "1.3"
                                   ELSE IF gender = "male" THEN "0.8" ELSE "1.0",
                         voice_type |-> gender,
                         pause_after |-> 300]

\* The character field the claims give element i of a list.
ClaimedCharacter(els, i) ==
    LET before == {j \in 1..(i - 1) : els[j].type = "CHARACTER"}
    IN  IF els[i].type \notin {"DIALOGUE", "PARENTHETICAL"} \/ before = {} THEN NoText
        ELSE ClaimedName(els[CHOOSE j \in before : \A k \in before : k <= j].text)

\* C7: in the output of prepare_tts the character field of element i is
\* null for a SCENE_HEADING, ACTION, TRANSITION or CHARACTER element, and
\* for a DIALOGUE or PARENTHETICAL element it is the text of the most
\* recent CHARACTER element before i, upper-cased, cut at the first "(" and
\* trimmed, however many other elements lie between (null without one).
C7_CharacterField ==
    Ended("prepare_tts") =>
        /\ response.value.success
        /\ Len(response.value.elements) = Len(request.elements)
        /\ \A i \in 1..Len(request.elements) :
              response.value.elements[i].character = ClaimedCharacter(request.elements, i)

\* C7's case: a dialogue separated from its CHARACTER element by an action
\* carries the trimmed name, and the action carries none.
C7_Witness ==
    /\ Ended("prepare_tts")
    /\ Len(request.elements) = 3
    /\ request.elements[1] = [type |-> "CHARACTER", text |-> SophieOS]
    /\ request.elements[2].type = "ACTION"
    /\ request.elements[3].type = "DIALOGUE"
    /\ response.value.elements[2].character = NoText
    /\ response.value.elements[3].character = <<"S", "O", "P", "H", "I", "E">>

\* C9: guess_gender raises for no input, the empty and the whitespace-only
\* name included: it returns female, male or neutral by the first token of
\* the upper-cased name, neutral when there is no token.
C9_GuessGenderNeverRaises ==
    Ended("guess_gender") =>
        /\ response.kind = "return"
        /\ response.value = ClaimedGender(request.name)

KeyMissing == ANTHROPIC_API_KEY = NoText \/ ANTHROPIC_API_KEY = <<>>

AiEnded == pc = "done" /\ request.op \in {"analyze_scenes", "suggest_improvements"}

\* C2: without the credential every analyze_scenes and suggest_improvements
\* call ends as HTTP 500 with detail "ANTHROPIC_API_KEY not configured",
\* and issues no request to the external service.
C2_MissingCredentialIs500 ==
    (AiEnded /\ KeyMissing) =>
        /\ outbound = 0
        /\ response.kind = "raise"
        /\ response.exc.type = "HTTPException"
        /\ http_status(response) = 500
        /\ response.exc.detail = NOT_CONFIGURED

\* C3: when the external API answers with a status other than success, both
\* handlers answer with that status code and the upstream body as detail.
C3_UpstreamStatusPassedThrough ==
    (AiEnded /\ request.upstream.kind = "status" /\ request.upstream.status_code # 200) =>
        /\ response.kind = "raise"
        /\ response.exc.type = "HTTPException"
        /\ http_status(response) = request.upstream.status_code
        /\ response.exc.detail = request.upstream.text

\* The handler returned its success result.
Succeeded == response.kind = "return" /\ response.value.success

\* C8: when the external call succeeds and the text, trimmed and with its
\* fence stripped, does not parse as JSON (a fence with no newline or no
\* closing fence included), the handler returns {success: false, error},
\* and analyze_scenes puts the raw response text in raw_response.
C8_ParseFailureIsStructured ==
    ( /\ AiEnded
      /\ request.upstream.kind = "status"
      /\ request.upstream.status_code = 200
      /\ ~Succeeded ) =>
        /\ response.kind = "return"
        /\ "error" \in DOMAIN response.value
        /\ request.op = "analyze_scenes" =>
              /\ "raw_response" \in DOMAIN response.value
              /\ response.value.raw_response = request.upstream.text

\* C10: in analyze_scenes every failure of call_claude (no credential, a
\* status other than 200, a timeout or transport error) is handled by an
\* except clause of the handler: it returns {success: false, error}, and
\* no exception escapes, as in suggest_improvements.
C10_AnalyzeHandlesCallFailure ==
    ( /\ AiEnded
      /\ \/ request.upstream.kind \in {"none", "error"}
         \/ request.upstream.status_code # 200 ) =>
        /\ response.kind = "return"
        /\ ~response.value.success
        /\ "error" \in DOMAIN response.value

=============================================================================
